---------------------------- MODULE Spec2Model ----------------------------
(***************************************************************************)
(* A model of the expr package (expr.go): Parse, Expr.String and           *)
(* Expr.Eval.                                                              *)
(*                                                                         *)
(* A Go string is a sequence of one-character strings.  An Expr pointer    *)
(* is a record with the struct's fields plus isNil (the nil pointer is     *)
(* NilExpr).  A Go error is a record: isNil, or the text and the argument  *)
(* that throw() hands to fmt.Sprint.  A panic raised by throw() or by the  *)
(* runtime is the err field of the result record of every parser and       *)
(* evaluator function, and each caller hands it on unchanged, as the       *)
(* unwinding stack does.  The machine int is IntBits wide.                 *)
(***************************************************************************)
EXTENDS Integers, Sequences, FiniteSets, TLC

\* Width of the machine int of the model (Go's int is 32 or 64 bits wide).
IntBits == 8

\* Longest token sequence of the free-form inputs.
MaxTokens == 3

Pow2(n) == 2 ^ n

\* Two's-complement wrap-around of Go's int arithmetic.
Wrap(n) == ((n + Pow2(IntBits - 1)) % Pow2(IntBits)) - Pow2(IntBits - 1)

---------------------------------------------------------------------------
\* Characters.

\* const eof = 0: the NUL byte.
eof == "NUL"

Digits == <<"0", "1", "2", "3", "4", "5", "6", "7", "8", "9">>

Lower == {"a", "b", "c", "d", "e", "f", "g", "h", "i", "j", "k", "l", "m",
          "n", "o", "p", "q", "r", "s", "t", "u", "v", "w", "x", "y", "z"}

Upper == {"A", "B", "C", "D", "E", "F", "G", "H", "I", "J", "K", "L", "M",
          "N", "O", "P", "Q", "R", "S", "T", "U", "V", "W", "X", "Y", "Z"}

isDigit(c) == \E i \in 1..Len(Digits) : Digits[i] = c

\* int(c) - '0' for a digit c.
DigitVal(c) == (CHOOSE i \in 1..Len(Digits) : Digits[i] = c) - 1

isAlpha(c, digitOK) ==
    \/ c \in Lower
    \/ c \in Upper
    \/ c = "_"
    \/ (digitOK /\ isDigit(c))

\* s[n:] of a Go string.
Drop(s, n) == SubSeq(s, n + 1, Len(s))

---------------------------------------------------------------------------
\* Errors and expressions.

NilErr == [isNil |-> TRUE, text |-> "", arg |-> <<>>]

\* throw(s...): panic(errors.New(fmt.Sprint(s...))); the operands are all
\* strings, so Sprint concatenates text and arg with nothing in between.
throw(text, arg) == [isNil |-> FALSE, text |-> text, arg |-> arg]

\* The runtime panic of p.s[1] on a one-byte string; runtime.Error is an
\* error, so recoverer hands it back as the error of the call.
IndexPanic ==
    [isNil |-> FALSE,
     text |-> "runtime error: index out of range [1] with length 1",
     arg |-> <<>>]

NilExpr == [isNil |-> TRUE]

MkExpr(op, left, right, ident, num) ==
    [isNil |-> FALSE, op |-> op, left |-> left, right |-> right,
     ident |-> ident, num |-> num]

---------------------------------------------------------------------------
\* The scanner.

whitespace == <<" ", "\t", "\n", "\r">>

starts(s, set) ==
    IF Len(s) < 1 THEN FALSE ELSE \E i \in 1..Len(set) : Head(s) = set[i]

RECURSIVE skip(_)
skip(s) == IF s # <<>> /\ starts(s, whitespace) THEN skip(Drop(s, 1)) ELSE s

\* peek(doSkip): the byte and the parser's string after the skip.
peek(s, doSkip) ==
    LET t == IF doSkip THEN skip(s) ELSE s
    IN  [c |-> IF t = <<>> THEN eof ELSE Head(t), s |-> t]

\* next(doSkip): the byte and the parser's string after consuming it.
next(s, doSkip) ==
    LET t == IF doSkip THEN skip(s) ELSE s
    IN  IF t = <<>> THEN [c |-> eof, s |-> t]
        ELSE [c |-> Head(t), s |-> Drop(t, 1)]

maybe(s, extra) ==
    IF Len(s) >= 2 /\ \E i \in 1..Len(extra) : s[2] = extra[i] THEN 2 ELSE 1

\* The guard of case '=': len(p.s) >= 2 || p.s[1] == '='.  With one byte
\* left the right operand indexes out of range and panics.
eqGuard(s) == IF Len(s) >= 2 THEN "true" ELSE "panic"

\* nextOpLen: the length, and err for the runtime panic.
nextOpLen(s) ==
    IF s = <<>> THEN [n |-> 0, err |-> NilErr]
    ELSE LET c == Head(s)
         IN  IF c \in {"+", "-", "*", "/", "%", "^"} THEN [n |-> 1, err |-> NilErr]
             ELSE IF c = "<" THEN [n |-> maybe(s, <<"=", "<">>), err |-> NilErr]
             ELSE IF c = ">" THEN [n |-> maybe(s, <<"=", ">">>), err |-> NilErr]
             ELSE IF c = "&" THEN [n |-> maybe(s, <<"&", "^">>), err |-> NilErr]
             ELSE IF c = "|" THEN [n |-> maybe(s, <<"|">>), err |-> NilErr]
             ELSE IF c = "!" THEN [n |-> maybe(s, <<"=">>), err |-> NilErr]
             ELSE IF c = "="
                  THEN IF eqGuard(s) = "true" THEN [n |-> 2, err |-> NilErr]
                       ELSE [n |-> 0, err |-> IndexPanic]
             ELSE [n |-> 0, err |-> NilErr]

\* op(singles, doubles): the operator (or ""), the parser's string after
\* it, and err for the panic of nextOpLen.
op(s, singles, doubles) ==
    LET l == nextOpLen(s)
        o == SubSeq(s, 1, l.n)
    IN  IF ~l.err.isNil THEN [op |-> <<>>, s |-> s, err |-> l.err]
        ELSE IF l.n = 1 /\ \E i \in 1..Len(singles) : o[1] = singles[i]
             THEN [op |-> o, s |-> Drop(s, l.n), err |-> NilErr]
        ELSE IF l.n = 2 /\ \E i \in 1..Len(doubles) :
                              i % 2 = 1 /\ o = SubSeq(doubles, i, i + 1)
             THEN [op |-> o, s |-> Drop(s, l.n), err |-> NilErr]
        ELSE [op |-> <<>>, s |-> s, err |-> NilErr]

\* %q of one byte: the Go escape of a quote, a backslash and the control
\* bytes, and the byte itself when it is printable.
quoteByte(c) ==
    CASE c = "\"" -> <<"\\", "\"">>
      [] c = "\\" -> <<"\\", "\\">>
      [] c = "\t" -> <<"\\", "t">>
      [] c = "\n" -> <<"\\", "n">>
      [] c = "\r" -> <<"\\", "r">>
      [] c = eof -> <<"\\", "x", "0", "0">>
      [] OTHER -> <<c>>

RECURSIVE quoteBytes(_)
quoteBytes(s) == IF s = <<>> THEN <<>> ELSE quoteByte(Head(s)) \o quoteBytes(Tail(s))

\* fmt.Sprintf("%q", s)
quote(s) == <<"\"">> \o quoteBytes(s) \o <<"\"">>

\* remaining(): the quoted rest of the input, or eof.
remaining(s) == IF s # <<>> THEN quote(s) ELSE <<"e", "o", "f">>

---------------------------------------------------------------------------
\* The parser.  Each function returns [e, s, err]: the expression, the
\* parser's string afterwards, and the panic if one was raised.

Ok(e, s) == [e |-> e, s |-> s, err |-> NilErr]

Fail(s, err) == [e |-> NilExpr, s |-> s, err |-> err]

RECURSIVE numberLoop(_, _)
numberLoop(s, n) ==
    LET c == peek(s, FALSE).c
    IN  IF ~isDigit(c) THEN [n |-> n, s |-> s]
        ELSE numberLoop(next(s, FALSE).s, Wrap(10 * n + DigitVal(c)))

number(s) == numberLoop(s, 0)

RECURSIVE identifierLoop(_, _)
identifierLoop(s, id) ==
    LET c == peek(s, FALSE).c
    IN  IF ~isAlpha(c, id # <<>>) THEN [id |-> id, s |-> s]
        ELSE identifierLoop(next(s, FALSE).s, Append(id, c))

identifier(s) == identifierLoop(s, <<>>)

\* The operators of each precedence level, as the call sites give them.
orSingles == <<>>
orDoubles == <<"|", "|">>
andSingles == <<>>
andDoubles == <<"&", "&">>
cmpSingles == <<"+", "-", "|", "^", "!", ">", "<">>
cmpDoubles == <<"=", "=", "!", "=", ">", "=", "<", "=">>
exprSingles == <<"+", "-", "|", "^", "!">>
exprDoubles == <<>>
\* A bug: "+" listed with the multiplying operators.
termSinglesWithPlus == <<"*", "/", "%", "&", "+">>
termSingles == <<"*", "/", "%", "&">>
termDoubles == <<">", ">", "<", "<", "&", "^">>

RECURSIVE parse(_, _, _, _), parseLoop(_, _, _, _, _), level(_, _), factor(_)

\* The loop of parse: e is the expression so far.
parseLoop(s, singles, doubles, nextLevel, e) ==
    LET fold(o, r) ==
            IF ~r.err.isNil THEN r
            ELSE parseLoop(r.s, singles, doubles, nextLevel,
                           MkExpr(o.op, e, r.e, <<>>, 0))
        atOp(o) ==
            IF ~o.err.isNil THEN Fail(o.s, o.err)
            ELSE IF o.op = <<>> THEN Ok(e, o.s)
            ELSE fold(o, level(nextLevel, o.s))
        atPeek(p) ==
            IF p.c = eof THEN Ok(e, p.s) ELSE atOp(op(p.s, singles, doubles))
    IN  atPeek(peek(s, TRUE))

parse(s, singles, doubles, nextLevel) ==
    LET loop(r) ==
            IF ~r.err.isNil THEN r
            ELSE parseLoop(r.s, singles, doubles, nextLevel, r.e)
    IN  loop(level(nextLevel, s))

orList(s) == parse(s, orSingles, orDoubles, "andList")

andList(s) == parse(s, andSingles, andDoubles, "cmpList")

cmpList(s) == parse(s, cmpSingles, cmpDoubles, "expr")

expr(s) == parse(s, exprSingles, exprDoubles, "term")

term(s) == parse(s, termSingles, termDoubles, "factor")

\* The call of the function value nextLevel.
level(f, s) ==
    CASE f = "orList" -> orList(s)
      [] f = "andList" -> andList(s)
      [] f = "cmpList" -> cmpList(s)
      [] f = "expr" -> expr(s)
      [] f = "term" -> term(s)
      [] f = "factor" -> factor(s)

factor(s) ==
    LET unaryOf(o, r) ==
            IF ~r.err.isNil THEN r ELSE Ok(MkExpr(o, NilExpr, r.e, <<>>, 0), r.s)
        close(e, q) ==
            IF q.c # ")" THEN Fail(q.s, throw("unclosed paren at ", remaining(q.s)))
            ELSE Ok(e, q.s)
        group(r) == IF ~r.err.isNil THEN r ELSE close(r.e, next(r.s, TRUE))
        numberOf(n) == Ok(MkExpr(<<>>, NilExpr, NilExpr, <<>>, n.n), n.s)
        identOf(id) == Ok(MkExpr(<<>>, NilExpr, NilExpr, id.id, 0), id.s)
        at(p) ==
            IF p.c = eof THEN Fail(p.s, throw("unexpected eof", <<>>))
            ELSE IF isDigit(p.c) THEN numberOf(number(p.s))
            ELSE IF isAlpha(p.c, FALSE) THEN identOf(identifier(p.s))
            ELSE IF starts(p.s, <<"+", "-", "^", "!">>)
                 THEN unaryOf(SubSeq(p.s, 1, 1), factor(next(p.s, FALSE).s))
            ELSE IF p.c = "(" THEN group(level("orList", next(p.s, FALSE).s))
            ELSE Fail(p.s, throw("bad expression at ", remaining(p.s)))
    IN  at(peek(s, TRUE))

\* Parse: the named results (expr, err) as the deferred recoverer leaves
\* them.  expr is assigned only when orList returns; the throw for
\* trailing input comes after that assignment.
Parse(s) ==
    LET atEnd(e, p) ==
            IF p.c # eof
            THEN [expr |-> e, err |-> throw("syntax error at ", remaining(p.s))]
            ELSE [expr |-> e, err |-> NilErr]
        done(r) ==
            IF ~r.err.isNil THEN [expr |-> NilExpr, err |-> r.err]
            ELSE atEnd(r.e, peek(r.s, TRUE))
    IN  done(orList(s))

---------------------------------------------------------------------------
\* String.

RECURSIVE utoa(_)
utoa(n) == IF n < 10 THEN <<Digits[n + 1]>> ELSE Append(utoa(n \div 10), Digits[(n % 10) + 1])

\* fmt.Sprint of an int: the decimal digits, after a minus sign if negative.
Sprint(n) == IF n < 0 THEN <<"-">> \o utoa(0 - n) ELSE utoa(n)

RECURSIVE String(_)
String(e) ==
    IF e.isNil THEN <<>>
    ELSE IF e.op = <<>>
         THEN IF ~e.left.isNil THEN String(e.left)
              ELSE IF e.ident # <<>> THEN e.ident
              ELSE Sprint(e.num)
    ELSE LET left == String(e.left)
             right == String(e.right)
         IN  IF left = <<>> THEN <<"(">> \o e.op \o right \o <<")">>
             ELSE <<"(">> \o left \o <<" ">> \o e.op \o <<" ">> \o right \o <<")">>

---------------------------------------------------------------------------
\* Eval.  Each function returns [v, err]: the int, and the panic if one was
\* raised.

ReturnError == 0

ReturnZero == 1

Val(n) == [v |-> n, err |-> NilErr]

Panic(err) == [v |-> 0, err |-> err]

\* ErrorMode.error.
modeError(errMode, text, arg) ==
    CASE errMode = ReturnZero -> Val(0)
      [] errMode = ReturnError -> Panic(throw(text, arg))

toInt(t) == IF t THEN 1 ELSE 0

\* The bits of an int as a natural number below 2^IntBits, and back.
ToBits(n) == n % Pow2(IntBits)

RECURSIVE bitwise(_, _, _, _)
bitwise(f, a, b, k) ==
    IF k = 0 THEN 0
    ELSE f[a % 2][b % 2] + 2 * bitwise(f, a \div 2, b \div 2, k - 1)

bitAnd == <<<<0, 0>>, <<0, 1>>>>
bitOr == <<<<0, 1>>, <<1, 1>>>>
bitXor == <<<<0, 1>>, <<1, 0>>>>
bitAndNot == <<<<0, 0>>, <<1, 0>>>>

\* f is indexed from 1: f[bit + 1][bit + 1].
Bitwise(f, a, b) ==
    Wrap(bitwise([i \in 0..1 |-> [j \in 0..1 |-> f[i + 1][j + 1]]],
                 ToBits(a), ToBits(b), IntBits))

Abs(n) == IF n < 0 THEN 0 - n ELSE n

\* Go's / truncates toward zero; the most negative int over -1 wraps.
Quo(a, b) ==
    Wrap(IF (a < 0) = (b < 0) THEN Abs(a) \div Abs(b) ELSE 0 - (Abs(a) \div Abs(b)))

\* Go's %: the remainder has the sign of the dividend.
Rem(a, b) == IF a < 0 THEN 0 - (Abs(a) % Abs(b)) ELSE a % Abs(b)

\* left << right for right >= 0.
Shl(a, n) == IF n >= IntBits THEN 0 ELSE Wrap(a * Pow2(n))

\* left >> right for right >= 0: the arithmetic shift.
Shr(a, n) ==
    IF n >= IntBits THEN (IF a < 0 THEN 0 - 1 ELSE 0)
    ELSE (a - (a % Pow2(n))) \div Pow2(n)

\* The switch of the binary operators, on the operands' values.
binary(o, left, right, errMode) ==
    CASE o = <<"+">> -> Val(Wrap(left + right))
      [] o = <<"-">> -> Val(Wrap(left - right))
      [] o = <<"*">> -> Val(Wrap(left * right))
      [] o = <<"/">> -> IF right = 0 THEN modeError(errMode, "division by zero", <<>>)
                        ELSE Val(Quo(left, right))
      [] o = <<"%">> -> IF right = 0 THEN modeError(errMode, "modulo by zero", <<>>)
                        ELSE Val(Rem(left, right))
      [] o = <<"&">> -> Val(Bitwise(bitAnd, left, right))
      [] o = <<"|">> -> Val(Bitwise(bitOr, left, right))
      [] o = <<"^">> -> Val(Bitwise(bitXor, left, right))
      [] o = <<"&", "^">> -> Val(Bitwise(bitAndNot, left, right))
      [] o = <<">", ">">> ->
            IF right < 0 THEN modeError(errMode, "negative right shift amount", <<>>)
            ELSE Val(Shr(left, right))
      [] o = <<"<", "<">> ->
            IF right < 0 THEN modeError(errMode, "negative left shift amount", <<>>)
            ELSE Val(Shl(left, right))
      [] o = <<"=", "=">> -> Val(toInt(left = right))
      [] o = <<"!", "=">> -> Val(toInt(left # right))
      [] o = <<">", "=">> -> Val(toInt(left >= right))
      [] o = <<"<", "=">> -> Val(toInt(left <= right))
      [] o = <<"<">> -> Val(toInt(left < right))
      [] o = <<">">> -> Val(toInt(left > right))
      [] o = <<"|", "|">> -> Val(toInt(left # 0 \/ right # 0))
      [] o = <<"&", "&">> -> Val(toInt(left # 0 /\ right # 0))
      [] OTHER -> Panic(throw("unknown binary operator (can't happen) ", o))

\* The switch of the unary operators, on the operand's value.
unary(o, right) ==
    CASE o = <<"+">> -> Val(right)
      [] o = <<"-">> -> Val(Wrap(0 - right))
      [] o = <<"^">> -> Val((0 - right) - 1)
      [] o = <<"!">> -> Val(toInt(right = 0))
      [] OTHER -> Panic(throw("unknown unary operator (can't happen) ", o))

\* A bug: ReturnZero decided before the map is read.
lookupZeroFirst(ident, vs, errMode) ==
    IF errMode = ReturnZero \/ ident \notin DOMAIN vs
    THEN modeError(errMode, "undefined variable ", ident)
    ELSE Val(vs[ident])

\* The identifier case: n, ok := vars[e.ident].
lookup(ident, vs, errMode) ==
    IF ident \notin DOMAIN vs THEN modeError(errMode, "undefined variable ", ident)
    ELSE Val(vs[ident])

RECURSIVE eval(_, _, _)
eval(e, vs, errMode) ==
    LET apply(left, right) ==
            IF ~right.err.isNil THEN right
            ELSE binary(e.op, left.v, right.v, errMode)
        withLeft(left) ==
            IF ~left.err.isNil THEN left
            ELSE apply(left, eval(e.right, vs, errMode))
        withRight(right) ==
            IF ~right.err.isNil THEN right ELSE unary(e.op, right.v)
    IN  IF e.isNil THEN Val(0)
        ELSE IF e.op = <<>>
             THEN IF e.ident # <<>> THEN lookup(e.ident, vs, errMode) ELSE Val(e.num)
        ELSE IF ~e.left.isNil /\ ~e.right.isNil
             THEN withLeft(eval(e.left, vs, errMode))
        ELSE IF ~e.right.isNil THEN withRight(eval(e.right, vs, errMode))
        ELSE Panic(throw("unrecognized expression: can't happen", <<>>))

\* Eval: the named results (result, err) as the deferred recoverer leaves
\* them; result is assigned only when eval returns.
Eval(e, vs, errMode) ==
    LET done(r) ==
            IF ~r.err.isNil THEN [result |-> 0, err |-> r.err]
            ELSE [result |-> r.v, err |-> NilErr]
    IN  done(eval(e, vs, errMode))

---------------------------------------------------------------------------
\* The inputs.

\* The binary operators of the grammar.
BinOps ==
    {<<"|", "|">>, <<"&", "&">>,
     <<"=", "=">>, <<"!", "=">>, <<">">>, <<"<">>, <<">", "=">>, <<"<", "=">>,
     <<"+">>, <<"-">>, <<"|">>, <<"^">>,
     <<"*">>, <<"/">>, <<"%">>, <<"<", "<">>, <<">", ">">>, <<"&">>, <<"&", "^">>}

\* The operands of the three-operand inputs, by position.
Operands ==
    <<{<<"x">>, <<"3">>}, {<<"y">>, <<"0">>}, {<<"z", "_", "9">>, <<"1">>}>>

\* The smallest literal that does not fit the machine int.
BigLit == utoa(Pow2(IntBits - 1))

\* The tokens of the free-form inputs.
Tokens ==
    {<<"x">>, <<"y">>, <<"0">>, <<"3">>, BigLit,
     <<"-">>, <<"!">>, <<"^">>, <<"/">>, <<"<", "<">>, <<"&", "&">>,
     <<"=">>, <<"(">>, <<")">>, <<"@">>}

RECURSIVE Join(_, _)
Join(ts, sep) ==
    IF ts = <<>> THEN <<>>
    ELSE IF Len(ts) = 1 THEN ts[1]
    ELSE ts[1] \o sep \o Join(Tail(ts), sep)

\* "a op1 b op2 c".
PrecToks ==
    {<<a, o1, b, o2, c>> : a \in Operands[1], o1 \in BinOps,
                           b \in Operands[2], o2 \in BinOps, c \in Operands[3]}

FreeToks == UNION {[1..n -> Tokens] : n \in 1..MaxTokens}

\* The values a binding gives.
Values == {0 - 1, 0, 2}

\* The bindings: every map from some of the identifiers x, y to Values.
Bindings ==
    UNION {[D -> Values] : D \in SUBSET {<<"x">>, <<"y">>}}

Modes == {ReturnError, ReturnZero}

NoResult == [done |-> FALSE, result |-> 0, err |-> NilErr]

VARIABLES
    toks,     \* the tokens the input is written with
    src,      \* the input string
    pc,       \* how far the caller has come
    tree,     \* Parse's expr
    perr,     \* Parse's err
    str,      \* String() of tree
    tree2,    \* the round trip: Parse(str)'s expr
    perr2,    \* the round trip: Parse(str)'s err
    str2,     \* the round trip: String() of tree2
    env,      \* the binding given to Eval
    res       \* Eval's (result, err) by error mode

vars == <<toks, src, pc, tree, perr, str, tree2, perr2, str2, env, res>>

Init ==
    /\ \/ toks \in PrecToks /\ src = Join(toks, <<" ">>)
       \/ /\ toks \in FreeToks
          /\ \E sep \in {<<>>, <<" ">>} : src = Join(toks, sep)
    /\ pc = "start"
    /\ tree = NilExpr
    /\ perr = NilErr
    /\ str = <<>>
    /\ tree2 = NilExpr
    /\ perr2 = NilErr
    /\ str2 = <<>>
    /\ env = <<>>
    /\ res = [m \in Modes |-> NoResult]

\* e, err := Parse(src)
DoParse ==
    LET assign(r) == tree' = r.expr /\ perr' = r.err
    IN  /\ pc = "start"
        /\ assign(Parse(src))
        /\ pc' = "parsed"
        /\ UNCHANGED <<toks, src, str, tree2, perr2, str2, env, res>>

\* got := e.String(), after a parse without error.
DoString ==
    /\ pc = "parsed"
    /\ perr.isNil
    /\ str' = String(tree)
    /\ pc' = "rendered"
    /\ UNCHANGED <<toks, src, tree, perr, tree2, perr2, str2, env, res>>

\* The round trip: e, err = Parse(got), and got2 := e.String() if err is nil.
DoRoundTrip ==
    LET assign(r) ==
            /\ tree2' = r.expr
            /\ perr2' = r.err
            /\ str2' = IF r.err.isNil THEN String(r.expr) ELSE <<>>
    IN  /\ pc = "rendered"
        /\ assign(Parse(str))
        /\ pc' = "roundtrip"
        /\ UNCHANGED <<toks, src, tree, perr, str, env, res>>

\* got, err := e.Eval(vars, errMode), after a parse without error; the
\* same binding for both modes.
DoEval ==
    LET assign(m, r) ==
            res' = [res EXCEPT ![m] =
                       [done |-> TRUE, result |-> r.result, err |-> r.err]]
    IN  /\ pc \in {"parsed", "evaluated"}
        /\ perr.isNil
        /\ \E b \in Bindings, m \in Modes :
              /\ IF pc = "evaluated" THEN b = env ELSE TRUE
              /\ ~res[m].done
              /\ assign(m, Eval(tree, b, m))
              /\ env' = b
        /\ pc' = "evaluated"
        /\ UNCHANGED <<toks, src, tree, perr, str, tree2, perr2, str2>>

Next == DoParse \/ DoString \/ DoRoundTrip \/ DoEval

Spec == Init /\ [][Next]_vars

---------------------------------------------------------------------------
\* What the properties are stated with.

Parsed == pc # "start"

Rendered == pc \in {"rendered", "roundtrip"}

\* The input is the tokens written with single spaces.
Spaced == src = Join(toks, <<" ">>)

\* The precedence levels, lowest first.
Level(o) ==
    CASE o = <<"|", "|">> -> 1
      [] o = <<"&", "&">> -> 2
      [] o \in {<<"=", "=">>, <<"!", "=">>, <<">">>, <<"<">>, <<">", "=">>, <<"<", "=">>} -> 3
      [] o \in {<<"+">>, <<"-">>, <<"|">>, <<"^">>} -> 4
      [] OTHER -> 5

\* A literal is shown by its value: "0", "1", "3" are their own values.
LeftFold(a, o1, b, o2, c) ==
    <<"(", "(">> \o a \o <<" ">> \o o1 \o <<" ">> \o b \o <<")", " ">>
        \o o2 \o <<" ">> \o c \o <<")">>

RightFold(a, o1, b, o2, c) ==
    <<"(">> \o a \o <<" ">> \o o1 \o <<" ", "(">> \o b \o <<" ">>
        \o o2 \o <<" ">> \o c \o <<")", ")">>

IsPrecInput == toks \in PrecToks /\ Spaced

EvalZeroAlwaysSucceeds ==
    res[ReturnZero].done => res[ReturnZero].err.isNil

\* The node shapes: numeric leaf, identifier leaf, unary node, binary node.
UnaryOps == {<<"+">>, <<"-">>, <<"^">>, <<"!">>}

RECURSIVE WellShaped(_)
WellShaped(e) ==
    /\ ~e.isNil
    /\ \/ e.op = <<>> /\ e.left.isNil /\ e.right.isNil
       \/ /\ e.op \in UnaryOps
          /\ e.left.isNil
          /\ e.ident = <<>>
          /\ WellShaped(e.right)
       \/ /\ e.op \in BinOps
          /\ e.ident = <<>>
          /\ WellShaped(e.left)
          /\ WellShaped(e.right)

\* The reference evaluator: a failing node is worth 0, and every operator
\* is applied to the values of its operands.
RECURSIVE RefEval(_, _)
RefEval(e, vs) ==
    IF e.isNil THEN 0
    ELSE IF e.op = <<>>
         THEN IF e.ident = <<>> THEN e.num
              ELSE IF e.ident \in DOMAIN vs THEN vs[e.ident] ELSE 0
    ELSE IF e.left.isNil
         THEN LET r == RefEval(e.right, vs)
              IN  CASE e.op = <<"+">> -> r
                    [] e.op = <<"-">> -> Wrap(0 - r)
                    [] e.op = <<"^">> -> Wrap((0 - r) - 1)
                    [] e.op = <<"!">> -> IF r = 0 THEN 1 ELSE 0
                    [] OTHER -> 0
    ELSE LET l == RefEval(e.left, vs)
             r == RefEval(e.right, vs)
         IN  IF e.op \in {<<"/">>, <<"%">>} /\ r = 0 THEN 0
             ELSE IF e.op \in {<<"<", "<">>, <<">", ">">>} /\ r < 0 THEN 0
             ELSE IF e.op \in BinOps THEN binary(e.op, l, r, ReturnZero).v
             ELSE 0

\* C3: Eval under ReturnZero returns the reference evaluator's value.
ZeroSubstitutionIsLocal ==
    res[ReturnZero].done =>
        /\ res[ReturnZero].err.isNil
        /\ res[ReturnZero].result = RefEval(tree, env)

\* The nodes in the order left child, right child, operator.
RECURSIVE PostOrder(_)
PostOrder(e) ==
    IF e.isNil THEN <<>>
    ELSE PostOrder(e.left) \o PostOrder(e.right) \o <<e>>

\* The error a node raises by itself, given the values of its children.
NodeFailure(e, vs) ==
    IF e.op = <<>>
    THEN IF e.ident # <<>> /\ e.ident \notin DOMAIN vs
         THEN throw("undefined variable ", e.ident) ELSE NilErr
    ELSE IF e.left.isNil THEN NilErr
    ELSE LET r == RefEval(e.right, vs)
         IN  CASE e.op = <<"/">> /\ r = 0 -> throw("division by zero", <<>>)
               [] e.op = <<"%">> /\ r = 0 -> throw("modulo by zero", <<>>)
               [] e.op = <<"<", "<">> /\ r < 0 -> throw("negative left shift amount", <<>>)
               [] e.op = <<">", ">">> /\ r < 0 -> throw("negative right shift amount", <<>>)
               [] OTHER -> NilErr

FirstFailure(e, vs) ==
    LET nodes == PostOrder(e)
        bad == {i \in 1..Len(nodes) : ~NodeFailure(nodes[i], vs).isNil}
    IN  IF bad = {} THEN NilErr
        ELSE NodeFailure(nodes[CHOOSE i \in bad : \A j \in bad : i <= j], vs)

\* C4: under ReturnError, Eval returns the error of the first failing node
\* in the order left child, right child, operator, and no error when no
\* node fails.
FirstErrorInPostOrder ==
    res[ReturnError].done => res[ReturnError].err = FirstFailure(tree, env)

\* C5: a parse that returns an error returns a nil expression.
FailedParseYieldsNoTree ==
    (Parsed /\ ~perr.isNil) => tree.isNil

\* C6: the rendering of a parsed input parses again, and renders as itself.
RoundTripIdempotent ==
    pc = "roundtrip" => (perr2.isNil /\ str2 = str)

\* An identifier or a literal: a complete top-level expression.
IsOperandToken(t) == isDigit(t[1]) \/ isAlpha(t[1], FALSE)

IsPrefix(p, s) == Len(p) <= Len(s) /\ SubSeq(s, 1, Len(p)) = p

BeginsWithBinOp(s) == \E o \in BinOps : IsPrefix(o, s)

\* The text after the first token.
TrailingText == Join(Tail(toks), <<" ">>)

\* The input is an operand, a space, and text that begins no binary operator.
IsTrailingInput ==
    /\ Len(toks) >= 2
    /\ Spaced
    /\ IsOperandToken(toks[1])
    /\ ~BeginsWithBinOp(TrailingText)

\* The tokens hold no byte that %q escapes.
TrailingError == throw("syntax error at ", <<"\"">> \o TrailingText \o <<"\"">>)

\* C7: trailing input that begins no binary operator makes Parse fail with
\* "syntax error at " and the quoted remaining input.
TrailingInputIsSyntaxError ==
    (Parsed /\ IsTrailingInput) => perr = TrailingError

\* C8: every node of a tree that Parse returns without error is a numeric
\* leaf, an identifier leaf, a unary node or a binary node.
TreeShapeInvariant ==
    (Parsed /\ perr.isNil) => WellShaped(tree)

\* C9: every numeric leaf of a parsed tree holds a value >= 0.
LiteralsNonNegative ==
    (Parsed /\ perr.isNil) =>
        LET nodes == PostOrder(tree)
        IN  \A i \in 1..Len(nodes) :
               (nodes[i].op = <<>> /\ nodes[i].ident = <<>>) => nodes[i].num >= 0

\* C10: when Eval under ReturnError returns (v, nil), Eval under ReturnZero
\* returns (v, nil) for the same tree and binding.
ModesAgreeWithoutError ==
    (res[ReturnError].done /\ res[ReturnZero].done /\ res[ReturnError].err.isNil) =>
        res[ReturnZero] = res[ReturnError]

\* Both modes evaluated a tree with a bound identifier to the same
\* non-zero value.
ModesAgreeWitness ==
    /\ res[ReturnError].done
    /\ res[ReturnZero].done
    /\ res[ReturnError].err.isNil
    /\ res[ReturnError].result # 0
    /\ res[ReturnZero] = res[ReturnError]
    /\ <<"x">> \in DOMAIN env
    /\ ~tree.left.isNil
    /\ tree.left.ident = <<"x">>

\* On the trees of the four shapes, Eval under ReturnZero succeeds with the
\* reference evaluator's value, and Eval under ReturnError returns the
\* first failure in post-order.
EvalOnShapedTrees ==
    WellShaped(tree) =>
        /\ EvalZeroAlwaysSucceeds
        /\ ZeroSubstitutionIsLocal
        /\ FirstErrorInPostOrder

\* Trailing input other than a lone final "=" or text that begins with "!"
\* is reported as C7 says.
TrailingInputOtherwise ==
    (Parsed /\ IsTrailingInput /\ Head(TrailingText) # "!" /\ TrailingText # <<"=">>)
        => perr = TrailingError

\* The round trip holds of every parsed tree whose numeric leaves are all
\* >= 0.
RoundTripOfNonNegative ==
    (pc = "roundtrip" /\ LiteralsNonNegative) => (perr2.isNil /\ str2 = str)

\* An expression comes back together with an error only when the error is
\* the one for trailing input.
TreeWithErrorOnlyTrailing ==
    (Parsed /\ ~perr.isNil /\ ~tree.isNil) => perr.text = "syntax error at "
=============================================================================
